---- MODULE Spec2Model ----
(***************************************************************************)
(* A model of glitchtip-webhook-relay: the endpoint-driven dispatch engine *)
(* (src/src/service.rs) and the lazily loaded, reloadable config store     *)
(* (src/src/config.rs, src/src/types.rs).                                   *)
(*                                                                         *)
(* Two specifications share the module:                                    *)
(*   Spec        one webhook request handled by receive_endpoint_webhook   *)
(*               against a config snapshot, down to the single sends;      *)
(*   SpecConfig  threads calling get_config / force_reload on one          *)
(*               LazyConfigManager while the candidate files change.       *)
(***************************************************************************)
EXTENDS Integers, Sequences, FiniteSets, TLC

VARIABLES
    \* ---- one request of receive_endpoint_webhook ----
    config,        \* the Config snapshot the handler obtained from get_config
    endpoint_id,   \* the path parameter
    hpc,           \* where the handler is
    next_url,      \* position of the iterator over webhook_config.url
    inflight,      \* positions of urls whose HTTP request is outstanding
    sent,          \* per position: HTTP requests issued (the transport's call count)
    answered,      \* per position: the Result the attempt ended with
    errors,        \* the Vec<String> of failure entries being collected
    fwd_result,    \* what forward_to_endpoint returned
    response,      \* the HttpResponse of the handler
    bodies,        \* per position: the JSON body of the POST (None before it)
    renders,       \* calls of glitchtip_to_feishu_card made by the request
    \* ---- what surrounds the process ----
    alert,         \* the inbound GlitchTip payload
    tmpl_ext,      \* what <template_dir>/feishu/default.json.jinja2 holds
    tmpl_emb,      \* how the embedded template behaves
    rng,           \* values the clock and the random generator can yield
    silent,        \* destination urls that never answer
    env_colors,    \* the GWR_ENABLE_HASH_COLORS environment variable
    hasher,        \* what SipHash yields for each key pair and text
    \* ---- one conversion by a Converter ----
    conv_dir,      \* Converter::template_dir
    rendered,      \* whether it was called and the Option<FeishuWebhook> returned
    \* ---- the LazyConfigManager and its callers ----
    cache,         \* RwLock<Option<Config>>: the protected value
    rw_readers,    \* threads holding the read lock
    rw_writer,     \* the thread holding the write lock, or NoThread
    fs,            \* per candidate path: what the file system holds there
    fs_writes,     \* how many times the files were changed so far
    env_port,      \* the PORT environment variable
    env_url,       \* the FEISHU_WEBHOOK_URL environment variable
    tpc,           \* per thread: where it is
    call,          \* per thread: the public method it called
    local,         \* per thread: the locals of get_config / reload_config
    ret,           \* per thread: the returned Result<Config>
    admin,         \* per thread: the HttpResponse of manage_config
    \* ---- single calls of the pure functions ----
    reply,         \* what the destination did with the POST of send_http_request
    outcome,       \* whether send_http_request was called and its Result
    extracted,     \* whether extract_metadata was called and its WebhookMetadata
    proc_seed,     \* the random hash keys of the running process (RandomState)
    seen           \* per text: the pairs hash_to_color returned so far, over restarts

dispatch_vars == <<config, endpoint_id, hpc, next_url, inflight, sent, answered,
                   errors, fwd_result, response, bodies, renders>>
input_vars == <<alert, tmpl_ext, tmpl_emb, rng, silent, env_colors, hasher>>
pure_vars == <<reply, outcome, extracted, proc_seed, seen>>
render_vars == <<conv_dir, rendered>>
store_vars == <<cache, rw_readers, rw_writer, fs, fs_writes, env_port, env_url,
                tpc, call, local, ret, admin>>
vars == <<dispatch_vars, store_vars, input_vars, render_vars, pure_vars>>

-----------------------------------------------------------------------------
(* Bounds of the model *)

MaxUrls == 3        \* longest url list of an endpoint
MaxNPar == 3        \* largest n_par drawn
MaxFsWrites == 1    \* how often the candidate files change in one behaviour

(* Program constants *)

default_server_port == 7876
default_parallel == 1
default_timeout == 30
default_retry == 3
NumConfigPaths == 4
MaxU16 == 65535

-----------------------------------------------------------------------------
(* types.rs: the configuration structures *)

Urls == {"u1", "u2"}
UrlLists == UNION {[1..n -> Urls] : n \in 0..MaxUrls}
NParValues == (0 - 1)..MaxNPar

ForwardConfig == {"FeishuRobotMsg", "WecomWebhook", "DingtalkWebhook"}

default_runtime_config ==
    [n_par |-> default_parallel, timeout |-> default_timeout, retry |-> default_retry]

WebhookRuntimeConfig ==
    [n_par : NParValues, timeout : {default_timeout}, retry : {default_retry}]

WebhookConfig(name) ==
    [name : {name}, url : UrlLists, enabled : BOOLEAN,
     forward_config : ForwardConfig, config : WebhookRuntimeConfig]

Config(port, webhooks) ==
    [server_port |-> port, template_dir |-> <<>>, webhooks |-> webhooks]

ConfigDefault == Config(default_server_port, <<>>)

-----------------------------------------------------------------------------
(* Sequence helpers *)

Min(a, b) == IF a < b THEN a ELSE b

-----------------------------------------------------------------------------
(* The dispatch inputs: config snapshots and requested names *)

\* the endpoint under dispatch is named "a"; "b" is a second, unrelated endpoint
DecoyWebhook ==
    [name |-> "b", url |-> <<"u2">>, enabled |-> TRUE,
     forward_config |-> "FeishuRobotMsg", config |-> default_runtime_config]

\* a later entry carrying the same name as w (serde does not reject duplicates)
ShadowWebhook(w) ==
    [name |-> w.name, url |-> <<"u1">>, enabled |-> ~w.enabled,
     forward_config |-> "FeishuRobotMsg", config |-> default_runtime_config]

DispatchWebhookLists ==
    {<<>>} \cup {<<w>> : w \in WebhookConfig("a")}
           \cup {<<DecoyWebhook, w>> : w \in WebhookConfig("a")}
           \cup {<<w, ShadowWebhook(w)>> : w \in WebhookConfig("a")}

EndpointIds == {"a", "b", "zz"}

\* Option<T> as a sequence: None is <<>>, Some(v) is <<v>>
None == <<>>
Some(v) == <<v>>

\* what a destination does with one POST: it answers with a status and a body
\* (None: the body cannot be read), or the request fails in the transport
StatusAnswer(code, body) == [kind |-> "status", code |-> code, body |-> body, error |-> ""]
TransportFailure(text) == [kind |-> "transport", code |-> 0, body |-> None, error |-> text]

StatusCodes == {200, 500}
Answers == {StatusAnswer(c, Some(IF c = 200 THEN "ok" ELSE "busy")) : c \in StatusCodes}
               \cup {TransportFailure("connection refused")}

NoThread == "none"
NoResult == [kind |-> "None"]
\* the Result of one attempt, as the collecting code sees it
Open == [st |-> "open", e |-> <<>>]
Done(e) == [st |-> IF e = <<>> THEN "ok" ELSE "failed", e |-> e]

NoResponse == [http |-> 0, status |-> "", errors |-> <<>>, has_errors |-> FALSE]

-----------------------------------------------------------------------------
(* converter.rs: the palette and hash_to_color *)

\* COLOR_PAIRS: (background_style, text_color)
COLOR_PAIRS ==
    << <<"red-50", "red">>, <<"orange-50", "orange">>, <<"yellow-50", "yellow">>,
       <<"green-50", "green">>, <<"blue-50", "blue">>, <<"purple-50", "purple">>,
       <<"carmine-50", "carmine">>, <<"violet-50", "violet">>, <<"indigo-50", "indigo">>,
       <<"wathet-50", "wathet">>, <<"turquoise-50", "turquoise">>, <<"lime-50", "lime">> >>

\* the texts that get hashed: attribute values of the alerts and the sentinel
ColorTexts == {"", "web", "api", "Unknown"}

\* SipHash key pairs: the fixed pair of DefaultHasher::new() and the pairs a
\* RandomState would draw for a process
ZeroKeys == <<0, 0>>
RandomKeys == {<<1, 7>>}
HashKeys == {ZeroKeys} \cup RandomKeys

\* hash values on both sides of a multiple of the palette length, and a
\* large one
HashValues == {0, 11, 12, 2147483647}

\* the hash function of the runs that do not vary it
SampleHasher ==
    [x \in HashKeys \X ColorTexts |-> IF x[2] = "web" THEN 12
                                       ELSE IF x[2] = "api" THEN 11 ELSE 0]

RandomStateKeys == proc_seed

\* DefaultHasher::new(): SipHasher13 with the keys (0, 0), in every process
DefaultHasherKeys == ZeroKeys

\* text.hash(&mut hasher); hasher.finish()
finish(keys, text) == hasher[<<keys, text>>]

\* hash_to_color: the entry at (hash as usize) % COLOR_PAIRS.len(), 0-based
hash_to_color(text) ==
    LET hash == finish(DefaultHasherKeys, text)
        index == hash % Len(COLOR_PAIRS)
        entry == COLOR_PAIRS[index + 1]
    IN <<entry[1], entry[2]>>

-----------------------------------------------------------------------------
(* converter.rs: metadata, templates and the fallback chain *)

\* GlitchTipSlackWebhook, the parts extraction reads. A title or subtitle is
\* the sequence of its pieces: the characters the code searches for and the
\* prefix it strips are pieces of their own.
Field(title, value) == [title |-> title, value |-> value]
Attachment(title, link, fields) == [title |-> title, title_link |-> link, fields |-> fields]
Section(subtitle) == [activity_subtitle |-> subtitle]
Alert(attachments, sections) == [attachments |-> attachments, sections |-> sections]

SampleAlert ==
    Alert(<<Attachment(<<"ValueError", ":", " bad input">>, "https://gt/issues/1",
                       <<Field("Project", "web"), Field("Environment", "api"),
                         Field("Server Name", "web"), Field("Release", "api")>>)>>,
          <<Section(<<"View Issue ", "[", "PROJ-1", "]", "(", "https://gt/issues/1", ")">>)>>)

\* attachments: [] and sections: [] (the serde defaults)
EmptyAlert == Alert(<<>>, <<>>)

\* the inbound alerts of the conversions
Alerts == {SampleAlert, EmptyAlert}

\* how a template behaves when it is rendered and its output parsed
TemplateKinds == {"good", "good_dsl", "render_fails", "not_json"}

\* what the override file can be
ExternalStates == {"missing", "unreadable"} \cup TemplateKinds

ViewIssuePrefix == "View Issue "

\* subtitle.strip_prefix("View Issue ").unwrap_or(subtitle)
strip_prefix(s) == IF s # <<>> /\ s[1] = ViewIssuePrefix THEN Tail(s) ELSE s

RECURSIVE FindFromPos(_, _, _)
FindFromPos(s, ch, i) ==
    IF i > Len(s) THEN None
    ELSE IF s[i] = ch THEN Some(i - 1)
    ELSE FindFromPos(s, ch, i + 1)

\* str::find(ch): the 0-based position of the first occurrence, if any
find(s, ch) == FindFromPos(s, ch, 1)

\* &s[start..end]: 0-based, end excluded
Slice(s, start, end) == SubSeq(s, start + 1, end)

\* extract_metadata, issue_identifier: the first section's subtitle without the
\* prefix; what stands between the first '[' and the first ']' if that ']'
\* comes after that '['; "Unknown" without sections
issue_identifier(sections) ==
    IF sections = <<>> THEN <<"Unknown">>
    ELSE LET cleaned == strip_prefix(sections[1].activity_subtitle)
             start == find(cleaned, "[")
             end == find(cleaned, "]")
         IN IF start # None /\ end # None /\ end[1] > start[1]
            THEN Slice(cleaned, start[1] + 1, end[1])
            ELSE cleaned

\* attachment.title.split(':').next().unwrap_or(&attachment.title)
FirstOfSplit(title) ==
    IF find(title, ":") = None THEN title ELSE Slice(title, 0, find(title, ":")[1])

DetailsOrEmpty(attachments) ==
    IF attachments # <<>>
    THEN <<FirstOfSplit(attachments[1].title), attachments[1].title,
           attachments[1].title_link>>
    ELSE << <<>>, <<>>, "">>

\* extract_metadata: (exception_class_name, full_error_message, issue_url)
ExceptionDetails(attachments) ==
    IF attachments # <<>>
    THEN <<FirstOfSplit(attachments[1].title), attachments[1].title,
           attachments[1].title_link>>
    ELSE << <<"Unknown">>, <<"Unknown error">>, "">>

RECURSIVE FieldLoop(_, _, _)
\* for field in &attachment.fields: each field of that title assigns
FieldLoop(fields, title, current) ==
    IF fields = <<>> THEN current
    ELSE FieldLoop(Tail(fields), title,
                   IF Head(fields).title = title THEN Head(fields).value ELSE current)

\* extract_metadata: one of project, env, host, commit
FieldValue(attachments, title) ==
    IF attachments # <<>> THEN FieldLoop(attachments[1].fields, title, "Unknown")
    ELSE "Unknown"

\* v.parse::<bool>().ok()
parse_bool(v) ==
    IF v = "true" THEN Some(TRUE) ELSE IF v = "false" THEN Some(FALSE) ELSE None

DisabledUnlessSet(v) == IF parse_bool(v) # None THEN parse_bool(v)[1] ELSE FALSE

\* Converter::new: env::var(..).ok().and_then(parse).unwrap_or(true)
enable_hash_colors(v) == IF parse_bool(v) # None THEN parse_bool(v)[1] ELSE TRUE

\* the ColorInfo of the else branch
FixedColors ==
    [project |-> <<"red-50", "red">>, env |-> <<"carmine-50", "carmine">>,
     host |-> <<"orange-50", "orange">>]

\* extract_metadata: the attributes of the alert, the colours, and the
\* timestamp and random element ids of this call
extract_metadata(a, nonce) ==
    LET details == ExceptionDetails(a.attachments)
        project == FieldValue(a.attachments, "Project")
        env == FieldValue(a.attachments, "Environment")
        host == FieldValue(a.attachments, "Server Name")
    IN [webhook_alias |-> "GlitchTip",
        issue_identifier |-> issue_identifier(a.sections),
        exception_class_name |-> details[1],
        full_error_message |-> details[2],
        issue_url |-> details[3],
        project_id |-> project,
        environment_name |-> env,
        hostname |-> host,
        commit_hash |-> FieldValue(a.attachments, "Release"),
        colors |-> IF enable_hash_colors(env_colors)
                   THEN [project |-> hash_to_color(project), env |-> hash_to_color(env),
                         host |-> hash_to_color(host)]
                   ELSE FixedColors,
        stamp_and_ids |-> nonce]

Template(origin, kind) == [origin |-> origin, kind |-> kind]

\* load_template_content: the override file if a directory is configured and
\* the file exists and can be read, the embedded template otherwise
load_template_content(dir, ext, emb) ==
    IF dir # None /\ ext \in TemplateKinds
    THEN Some(Template("external", ext))
    ELSE Some(Template("embedded", emb))

\* render_template: Err when the template does not render
render_template(tpl, md) ==
    IF tpl.kind = "render_fails" THEN [kind |-> "Err", msg |-> <<"render">>]
    ELSE [kind |-> "Ok", value |-> [tpl |-> tpl, md |-> md]]

Document(origin, md, part, dsl) == [origin |-> origin, md |-> md, part |-> part, dsl |-> dsl]

\* serde_json::from_str of the rendered text
from_str(text) ==
    IF text.tpl.kind = "not_json" THEN [kind |-> "Err", msg |-> <<"json">>]
    ELSE [kind |-> "Ok",
          value |-> Document(text.tpl.origin, text.md, "document",
                             IF text.tpl.kind = "good_dsl"
                             THEN Some(Document(text.tpl.origin, text.md, "dsl", None))
                             ELSE None)]

WholeDocument(doc) == doc

\* card_json.get("dsl"): the nested document if there is one, else the whole
CardContent(doc) == IF doc.dsl # None THEN doc.dsl[1] ELSE doc

FeishuWebhook(card) == [msg_type |-> "interactive", card |-> Some(card), content |-> None]

EmergencyAsText(md) ==
    [msg_type |-> "text", card |-> None,
     content |-> Some(<<md.exception_class_name, md.full_error_message>>)]

\* create_emergency_fallback_webhook: a literal document built from three
\* attributes of the metadata
create_emergency_fallback_webhook(md) ==
    FeishuWebhook(Document("emergency",
                           <<md.exception_class_name, md.full_error_message,
                             md.issue_identifier>>,
                           "document", None))

FallbackStraightToEmergency(emb, md) == create_emergency_fallback_webhook(md)

\* construct_fallback_feishu_webhook: render and parse the embedded template,
\* the emergency document if either fails
construct_fallback_feishu_webhook(emb, md) ==
    LET text == render_template(Template("embedded", emb), md) IN
    IF text.kind = "Ok" /\ from_str(text.value).kind = "Ok"
    THEN FeishuWebhook(CardContent(from_str(text.value).value))
    ELSE create_emergency_fallback_webhook(md)

\* glitchtip_to_feishu_card
glitchtip_to_feishu_card(dir, ext, emb, a, nonce) ==
    LET md == extract_metadata(a, nonce)
        tc == load_template_content(dir, ext, emb)
    IN IF tc = None THEN None
       ELSE LET text == render_template(tc[1], md) IN
            IF text.kind = "Err" THEN Some(construct_fallback_feishu_webhook(emb, md))
            ELSE IF from_str(text.value).kind = "Err"
            THEN Some(construct_fallback_feishu_webhook(emb, md))
            ELSE Some(FeishuWebhook(CardContent(from_str(text.value).value)))

-----------------------------------------------------------------------------
(* service.rs: WebhookService *)

\* config.webhooks.iter().find(|w| w.name == endpoint_id): position of the
\* first match, 0 when there is none
RECURSIVE FindFrom(_, _, _)
FindFrom(webhooks, id, i) ==
    IF i > Len(webhooks) THEN 0
    ELSE IF webhooks[i].name = id THEN i
    ELSE FindFrom(webhooks, id, i + 1)

FindOrFirst(webhooks, id) ==
    IF FindFrom(webhooks, id, 1) = 0 /\ Len(webhooks) > 0 THEN 1
    ELSE FindFrom(webhooks, id, 1)

FindWebhook(webhooks, id) == FindFrom(webhooks, id, 1)

AlwaysEnabled(w) == TRUE

\* if !webhook_config.enabled { return Ok(vec![]) }
IsEnabled(w) == w.enabled

\* if webhook_config.url.is_empty() { return Err(..) }
HasNoUrls(w) == Len(w.url) = 0

NotFoundError(id) == [kind |-> "Err", msg |-> <<"Webhook", id, "not found in configuration">>]
NoUrlsError(id) == [kind |-> "Err", msg |-> <<"Webhook", id, "has no URLs configured">>]
Ok(v) == [kind |-> "Ok", value |-> v]

\* forward_with_parallelism: urls.len() == 1 || n_par <= 1
IsSequential(w) == Len(w.url) = 1 \/ w.config.n_par <= 1

IsSuccessOrRedirect(code) == 200 <= code /\ code <= 399

\* response.status().is_success()
is_success(code) == 200 <= code /\ code <= 299

\* response.text().await.unwrap_or_default()
unwrap_or_default(body) == IF body = None THEN "" ELSE body[1]

\* the Err of send_http_request, None for Ok(()): the error of send().await?,
\* nothing for a 2xx status, format!("HTTP {}: {}", status, body) otherwise
SendError(ans) ==
    IF ans.kind = "transport" THEN <<ans.error>>
    ELSE IF is_success(ans.code) THEN <<>>
    ELSE <<"HTTP", ans.code, unwrap_or_default(ans.body)>>

\* the Err arms of send_by_platform_impl for the stubbed platforms
NotImplementedError(fc) ==
    IF fc = "WecomWebhook" THEN <<"WeCom webhook not implemented yet">>
    ELSE <<"DingTalk webhook not implemented yet">>

EntryWithoutName(name, url, e) == <<url, e>>

\* format!("{} ({}): {}", webhook_config.name, url, e)
FailureEntry(name, url, e) == <<name, url, e>>

RecordInFront(errs, name, url, e) ==
    IF e = <<>> THEN errs ELSE <<FailureEntry(name, url, e)>> \o errs

RecordFirstOnly(errs, name, url, e) ==
    IF e = <<>> \/ errs # <<>> THEN errs ELSE Append(errs, <<name, url, e>>)

\* Ok(_) => nothing, Err(e) => errors.push(format!(..)) / Some(format!(..))
RecordResult(errs, name, url, e) ==
    IF e = <<>> THEN errs ELSE Append(errs, FailureEntry(name, url, e))

AllImplemented(fc) == TRUE

\* send_by_platform_impl: the one arm of the match that sends
IsImplemented(fc) == fc = "FeishuRobotMsg"

\* Converter::new(None): the template directory the dispatch gives its converter
ConverterTemplateDir(cfg) == None

\* anyhow!("Failed to convert to Feishu interactive card format")
ConvertError == <<"Failed to convert to Feishu interactive card format">>

ReturnsWhenAllLaunched(n, next, in_progress) == next > n

\* the for loop ran out of urls / collect() resolved: the stream is exhausted
\* and buffer_unordered holds no future in progress
StreamExhausted(n, next, in_progress) == next > n /\ in_progress = {}

CanLaunchUnbounded(n_inflight, max_concurrent) == TRUE

\* buffer_unordered(max_concurrent): the next future is pulled from the stream
\* only while fewer than max_concurrent are in progress
CanLaunch(n_inflight, max_concurrent) == n_inflight < max_concurrent

\* the endpoint the handler resolved (meaningful once the lookup succeeded)
Resolved == config.webhooks[FindWebhook(config.webhooks, endpoint_id)]

-----------------------------------------------------------------------------
(* service.rs: the handler of POST /i/{endpoint_id}, split at its awaits *)

\* forward_to_endpoint up to the first await of forward_with_parallelism
forward_to_endpoint ==
    /\ hpc = "request"
    /\ LET i == FindWebhook(config.webhooks, endpoint_id)
           w == config.webhooks[i]
           n == Len(w.url)
       IN IF i = 0
          THEN /\ fwd_result' = NotFoundError(endpoint_id)
               /\ hpc' = "returned"
               /\ UNCHANGED <<sent, answered, bodies>>
          ELSE IF ~IsEnabled(w)
          THEN /\ fwd_result' = Ok(<<>>)
               /\ hpc' = "returned"
               /\ UNCHANGED <<sent, answered, bodies>>
          ELSE IF HasNoUrls(w)
          THEN /\ fwd_result' = NoUrlsError(endpoint_id)
               /\ hpc' = "returned"
               /\ UNCHANGED <<sent, answered, bodies>>
          ELSE /\ hpc' = IF IsSequential(w) THEN "sequential" ELSE "parallel"
               /\ sent' = [k \in 1..n |-> 0]
               /\ answered' = [k \in 1..n |-> Open]
               /\ bodies' = [k \in 1..n |-> None]
               /\ UNCHANGED fwd_result
    /\ UNCHANGED <<config, endpoint_id, next_url, inflight, errors, response, renders>>
    /\ UNCHANGED <<store_vars, input_vars, render_vars, pure_vars>>

\* send_by_platform_impl for the url at position i, up to the await of the POST:
\* the Feishu arm renders and issues the request, the stubbed arms fail at once
StartSend(i) ==
    LET w == Resolved IN
    IF IsImplemented(w.forward_config)
    THEN \E nonce \in rng :
           LET msg == glitchtip_to_feishu_card(ConverterTemplateDir(config), tmpl_ext,
                                               tmpl_emb, alert, nonce)
           IN /\ renders' = renders + 1
              /\ IF msg = None
                 THEN /\ errors' = RecordResult(errors, w.name, w.url[i], ConvertError)
                      /\ answered' = [answered EXCEPT ![i] = Done(ConvertError)]
                      /\ UNCHANGED <<inflight, sent, bodies>>
                 ELSE /\ inflight' = inflight \cup {i}
                      /\ sent' = [sent EXCEPT ![i] = @ + 1]
                      /\ bodies' = [bodies EXCEPT ![i] = msg]
                      /\ UNCHANGED <<answered, errors>>
    ELSE /\ errors' = RecordResult(errors, w.name, w.url[i],
                                   NotImplementedError(w.forward_config))
         /\ answered' = [answered EXCEPT ![i] = Done(NotImplementedError(w.forward_config))]
         /\ UNCHANGED <<inflight, sent, bodies, renders>>

RetryWhileAllowed(e, attempts, retry) == e # <<>> /\ attempts <= retry

\* whether the url is sent to again after the attempt ended with e: the match
\* on the result logs or records and moves on; webhook_config.config.retry is
\* read nowhere
SendAgain(e, attempts, retry) == FALSE

\* send_http_request from the answer on, and the match on its result
FinishSend(i, ans) ==
    LET w == Resolved IN
    /\ w.url[i] \notin silent
    /\ IF SendAgain(SendError(ans), sent[i], w.config.retry)
       THEN /\ sent' = [sent EXCEPT ![i] = @ + 1]
            /\ UNCHANGED <<inflight, errors, answered>>
       ELSE /\ inflight' = inflight \ {i}
            /\ errors' = RecordResult(errors, w.name, w.url[i], SendError(ans))
            /\ answered' = [answered EXCEPT ![i] = Done(SendError(ans))]
            /\ UNCHANGED sent
    /\ UNCHANGED <<bodies, renders>>

\* forward_sequential: the loop body for the next url
forward_sequential_send ==
    /\ hpc = "sequential"
    /\ inflight = {}
    /\ next_url <= Len(Resolved.url)
    /\ StartSend(next_url)
    /\ next_url' = IF inflight' = {} THEN next_url + 1 ELSE next_url
    /\ UNCHANGED <<config, endpoint_id, hpc, fwd_result, response>>
    /\ UNCHANGED <<store_vars, input_vars, render_vars, pure_vars>>

\* forward_sequential: the awaited send of the loop body completes
forward_sequential_complete ==
    /\ hpc = "sequential"
    /\ inflight = {next_url}
    /\ \E ans \in Answers : FinishSend(next_url, ans)
    /\ next_url' = next_url + 1
    /\ UNCHANGED <<config, endpoint_id, hpc, fwd_result, response>>
    /\ UNCHANGED <<store_vars, input_vars, render_vars, pure_vars>>

\* forward_parallel: buffer_unordered pulls the next future and polls it
forward_parallel_launch ==
    /\ hpc = "parallel"
    /\ next_url <= Len(Resolved.url)
    /\ CanLaunch(Cardinality(inflight), Resolved.config.n_par)
    /\ StartSend(next_url)
    /\ next_url' = next_url + 1
    /\ UNCHANGED <<config, endpoint_id, hpc, fwd_result, response>>
    /\ UNCHANGED <<store_vars, input_vars, render_vars, pure_vars>>

\* forward_parallel: one of the futures in progress completes, in any order
forward_parallel_complete ==
    /\ hpc = "parallel"
    /\ \E i \in inflight : \E ans \in Answers : FinishSend(i, ans)
    /\ UNCHANGED <<config, endpoint_id, hpc, next_url, fwd_result, response>>
    /\ UNCHANGED <<store_vars, input_vars, render_vars, pure_vars>>

ErrWhenAllFailed(errs, n) ==
    IF n > 0 /\ Len(errs) = n
    THEN [kind |-> "Err", msg |-> <<"all destinations failed">>]
    ELSE Ok(errs)

\* forward_to_endpoint: let errors = ..await; Ok(errors), whatever it holds
ForwardOutcome(errs, n) == Ok(errs)

\* the loop / the collected stream ends; forward_to_endpoint returns Ok(errors)
forward_return ==
    /\ hpc \in {"sequential", "parallel"}
    /\ StreamExhausted(Len(Resolved.url), next_url, inflight)
    /\ fwd_result' = ForwardOutcome(errors, Len(Resolved.url))
    /\ hpc' = "returned"
    /\ UNCHANGED <<config, endpoint_id, next_url, inflight, sent, answered,
                   errors, response, bodies, renders>>
    /\ UNCHANGED <<store_vars, input_vars, render_vars, pure_vars>>

RespondErrorAsSuccess(r) ==
    IF r.kind = "Ok" /\ r.value # <<>>
    THEN [http |-> 200, status |-> "partial_success", errors |-> r.value,
          has_errors |-> TRUE]
    ELSE [http |-> 200, status |-> "success", errors |-> <<>>, has_errors |-> FALSE]

\* receive_endpoint_webhook: the match on the result of forward_to_endpoint
Respond(r) ==
    IF r.kind = "Ok"
    THEN IF r.value = <<>>
         THEN [http |-> 200, status |-> "success", errors |-> <<>>, has_errors |-> FALSE]
         ELSE [http |-> 200, status |-> "partial_success", errors |-> r.value,
               has_errors |-> TRUE]
    ELSE [http |-> 404, status |-> "error", errors |-> <<>>, has_errors |-> FALSE]

\* actix_web::error::ErrorInternalServerError("Configuration error"): a plain
\* 500 without the JSON envelope
ConfigurationError ==
    [http |-> 500, status |-> "", errors |-> <<>>, has_errors |-> FALSE]

\* receive_endpoint_webhook: get_config().map_err(..)? ends the handler before
\* any dispatch, otherwise the match on forward_to_endpoint answers
HandlerResponse(got, r) ==
    IF got.kind = "Err" THEN ConfigurationError ELSE Respond(r)

receive_endpoint_webhook ==
    /\ hpc = "returned"
    /\ response' = HandlerResponse(Ok(config), fwd_result)
    /\ hpc' = "responded"
    /\ UNCHANGED <<config, endpoint_id, next_url, inflight, sent, answered,
                   errors, fwd_result, bodies, renders>>
    /\ UNCHANGED <<store_vars, input_vars, render_vars, pure_vars>>

-----------------------------------------------------------------------------
(* config.rs: the files, the environment and the loaded values *)

Threads == {"t1", "t2"}

\* what a candidate path holds: nothing, a file that does not parse, or a
\* file that parses to the config of that name
FileStates == {"missing", "corrupt", "A", "B"}
ValidFiles == {"A", "B"}

\* the candidate files the process starts with: none; one that parses; a
\* broken first candidate in front of two that parse
InitialFiles ==
    {<<"missing", "missing", "missing", "missing">>,
     <<"A", "missing", "missing", "missing">>,
     <<"corrupt", "B", "missing", "A">>}

\* the PORT and FEISHU_WEBHOOK_URL variables the process starts with (the two
\* overrides are independent statements, so every value occurs, not every pair)
EnvPorts == {"unset", "9000", "70000"}
EnvUrls == {"unset", "", "hook"}
EnvSettings ==
    {<<"unset", "unset">>, <<"9000", "hook">>, <<"70000", "">>, <<"unset", "hook">>}

FileWebhook(name, url) ==
    [name |-> name, url |-> <<url>>, enabled |-> TRUE,
     forward_config |-> "FeishuRobotMsg", config |-> default_runtime_config]

\* serde_yaml::from_str of the two files: B declares an endpoint of its own
\* that is named like the synthetic one
FileConfig(f) ==
    IF f = "A" THEN Config(8000, <<FileWebhook("a", "u1")>>)
    ELSE Config(8001, <<FileWebhook("env_webhook", "u2"), FileWebhook("b", "u1")>>)

\* port.parse::<u16>() of the PORT variable
DecimalValue(str) == IF str = "9000" THEN 9000 ELSE 70000

ParsePort(str) ==
    IF str # "unset" /\ DecimalValue(str) <= MaxU16 THEN Some(DecimalValue(str)) ELSE None

\* the WebhookConfig that apply_env_overrides pushes
EnvWebhook(webhook_url) ==
    [name |-> "env_webhook", url |-> <<webhook_url>>, enabled |-> TRUE,
     forward_config |-> "FeishuRobotMsg",
     config |-> [n_par |-> 1, timeout |-> 30, retry |-> 3]]

\* Config::apply_env_overrides, on the variables of the process environment
apply_env_overrides(c) ==
    LET port == IF ParsePort(env_port) # None THEN ParsePort(env_port)[1]
                ELSE c.server_port
        webhooks == IF env_url # "unset" /\ env_url # ""
                    THEN Append(c.webhooks, EnvWebhook(env_url))
                    ELSE c.webhooks
    IN [c EXCEPT !.server_port = port, !.webhooks = webhooks]

NoValidConfigIsError == [kind |-> "Err", value |-> <<ConfigDefault, 0>>]

\* find_and_load_config after the last candidate: Ok((Config::default(), None))
NoValidConfig == [kind |-> "Ok", value |-> <<ConfigDefault, 0>>]

StoreOnlyIfEmpty(old, cfg) == IF old # None THEN old ELSE Some(cfg)

StoreOverridden(old, cfg) == Some(apply_env_overrides(cfg))

\* reload_config: *config_guard = Some(config.clone())
NewCacheValue(old, cfg) == Some(cfg)

WriterIgnoresReaders(readers, writer) == writer = NoThread

\* RwLock: write() is granted when nobody holds the lock
CanWriteLock(readers, writer) == writer = NoThread /\ readers = {}

\* RwLock: read() is granted when no writer holds the lock
CanReadLock(readers, writer) == writer = NoThread

\* manage_config has not answered
NoAdminResponse == [http |-> 0, body |-> <<>>]

NoLocal == [config |-> None, path |-> 0, loaded |-> FALSE, old |-> None]

StoreIdle ==
    /\ cache = None
    /\ rw_readers = {}
    /\ rw_writer = NoThread
    /\ fs = [p \in 1..NumConfigPaths |-> "missing"]
    /\ fs_writes = 0
    /\ env_port = "unset"
    /\ env_url = "unset"
    /\ tpc = [t \in Threads |-> "idle"]
    /\ call = [t \in Threads |-> "none"]
    /\ local = [t \in Threads |-> NoLocal]
    /\ ret = [t \in Threads |-> NoResult]
    /\ admin = [t \in Threads |-> NoAdminResponse]

DispatchIdle ==
    /\ config = ConfigDefault
    /\ endpoint_id = "a"
    /\ hpc = "idle"
    /\ next_url = 1
    /\ inflight = {}
    /\ sent = <<>>
    /\ answered = <<>>
    /\ errors = <<>>
    /\ fwd_result = NoResult
    /\ response = NoResponse
    /\ bodies = <<>>
    /\ renders = 0

\* one alert, no override file, a working embedded template, one clock value,
\* destinations that all answer
InputsIdle ==
    /\ alert = SampleAlert
    /\ tmpl_ext = "missing"
    /\ tmpl_emb = "good"
    /\ rng = {1}
    /\ silent = {}
    /\ env_colors = "unset"
    /\ hasher = SampleHasher

\* no conversion has been asked of the converter yet
NotRendered == [called |-> FALSE, value |-> None]

RenderIdle ==
    /\ conv_dir = None
    /\ rendered = NotRendered

\* send_http_request has not been called
NotSent == [called |-> FALSE, e |-> <<>>]

\* extract_metadata has not been called
NotExtracted == [called |-> FALSE, md |-> <<>>]

\* no single call of a pure function is being looked at
PureIdle ==
    /\ reply = TransportFailure("")
    /\ outcome = NotSent
    /\ extracted = NotExtracted
    /\ proc_seed = ZeroKeys
    /\ seen = [s \in ColorTexts |-> {}]

-----------------------------------------------------------------------------
(* Spec: one request against a config snapshot *)

Init ==
    /\ \E ws \in DispatchWebhookLists : config = Config(default_server_port, ws)
    /\ endpoint_id \in EndpointIds
    /\ hpc = "request"
    /\ next_url = 1
    /\ inflight = {}
    /\ sent = <<>>
    /\ answered = <<>>
    /\ errors = <<>>
    /\ fwd_result = NoResult
    /\ response = NoResponse
    /\ bodies = <<>>
    /\ renders = 0
    /\ StoreIdle
    /\ InputsIdle
    /\ RenderIdle
    /\ PureIdle

Next ==
    \/ forward_to_endpoint
    \/ forward_sequential_send
    \/ forward_sequential_complete
    \/ forward_parallel_launch
    \/ forward_parallel_complete
    \/ forward_return
    \/ receive_endpoint_webhook

Spec == Init /\ [][Next]_vars

-----------------------------------------------------------------------------
(* config.rs: LazyConfigManager, one action per step between two lock or *)
(* file operations of a thread                                             *)

\* a thread enters get_config (up to the read lock) or force_reload
CallGet(t) ==
    /\ tpc[t] \in {"idle", "done"}
    /\ call' = [call EXCEPT ![t] = "get_config"]
    /\ tpc' = [tpc EXCEPT ![t] = "g_lock"]
    /\ local' = [local EXCEPT ![t] = NoLocal]
    /\ ret' = [ret EXCEPT ![t] = NoResult]
    /\ admin' = [admin EXCEPT ![t] = NoAdminResponse]
    /\ UNCHANGED <<cache, rw_readers, rw_writer, fs, fs_writes, env_port, env_url>>
    /\ UNCHANGED <<dispatch_vars, input_vars, render_vars, pure_vars>>

\* manage_config up to config_manager.force_reload(), which enters reload_config
force_reload(t) ==
    /\ tpc[t] \in {"idle", "done"}
    /\ call' = [call EXCEPT ![t] = "force_reload"]
    /\ tpc' = [tpc EXCEPT ![t] = "r_find"]
    /\ local' = [local EXCEPT ![t] = [NoLocal EXCEPT !.path = 1]]
    /\ ret' = [ret EXCEPT ![t] = NoResult]
    /\ admin' = [admin EXCEPT ![t] = NoAdminResponse]
    /\ UNCHANGED <<cache, rw_readers, rw_writer, fs, fs_writes, env_port, env_url>>
    /\ UNCHANGED <<dispatch_vars, input_vars, render_vars, pure_vars>>

ManageOkAsBadRequest(r) == [http |-> 400, body |-> <<"error", <<"reload">> >>]

\* manage_config: the match on the result of force_reload
ManageResponse(r) ==
    IF r.kind = "Ok"
    THEN [http |-> 200, body |-> <<>>]
    ELSE [http |-> 400, body |-> <<"error", r.msg>>]

\* where a returning reload_config continues: in manage_config if that is the
\* caller, nowhere if get_config is
AfterReload(c) == IF c = "force_reload" THEN "m_match" ELSE "done"

\* manage_config: Ok(_) => HttpResponse::Ok().finish(), Err(e) => BadRequest
manage_config(t) ==
    /\ tpc[t] = "m_match"
    /\ admin' = [admin EXCEPT ![t] = ManageResponse(ret[t])]
    /\ tpc' = [tpc EXCEPT ![t] = "done"]
    /\ UNCHANGED <<cache, rw_readers, rw_writer, fs, fs_writes, env_port, env_url,
                   call, local, ret>>
    /\ UNCHANGED <<dispatch_vars, input_vars, render_vars, pure_vars>>

\* get_config: self.config.read()
get_config_lock(t) ==
    /\ tpc[t] = "g_lock"
    /\ CanReadLock(rw_readers, rw_writer)
    /\ rw_readers' = rw_readers \cup {t}
    /\ tpc' = [tpc EXCEPT ![t] = "g_match"]
    /\ UNCHANGED <<cache, rw_writer, fs, fs_writes, env_port, env_url, call, local, ret>>
    /\ UNCHANGED <<dispatch_vars, input_vars, render_vars, pure_vars, admin>>

\* get_config: match config_guard.as_ref(); None drops the guard and goes on
\* to reload_config, Some starts the clone with the first field
get_config_match(t) ==
    /\ tpc[t] = "g_match"
    /\ IF cache = None
       THEN /\ rw_readers' = rw_readers \ {t}
            /\ tpc' = [tpc EXCEPT ![t] = "r_find"]
            /\ local' = [local EXCEPT ![t].path = 1]
       ELSE /\ local' = [local EXCEPT ![t].config =
                            Some([cache[1] EXCEPT !.webhooks = <<>>])]
            /\ tpc' = [tpc EXCEPT ![t] = "g_clone"]
            /\ UNCHANGED rw_readers
    /\ UNCHANGED <<cache, rw_writer, fs, fs_writes, env_port, env_url, call, ret>>
    /\ UNCHANGED <<dispatch_vars, input_vars, render_vars, pure_vars, admin>>

GuardKeptByCaller(readers, t) == readers

\* get_config: config_guard goes out of scope when the function returns
DropReadGuard(readers, t) == readers \ {t}

\* get_config: the clone completes, the guard is dropped, Ok(clone) returned
get_config_clone(t) ==
    /\ tpc[t] = "g_clone"
    /\ LET c == [local[t].config[1] EXCEPT !.webhooks = cache[1].webhooks]
       IN /\ local' = [local EXCEPT ![t] = NoLocal]
          /\ ret' = [ret EXCEPT ![t] = Ok(c)]
    /\ rw_readers' = DropReadGuard(rw_readers, t)
    /\ tpc' = [tpc EXCEPT ![t] = "done"]
    /\ UNCHANGED <<cache, rw_writer, fs, fs_writes, env_port, env_url, call>>
    /\ UNCHANGED <<dispatch_vars, input_vars, render_vars, pure_vars, admin>>

\* path.exists()
exists(f) == f # "missing"

LoadAcceptsCorrupt(f) ==
    Ok(IF f \in ValidFiles THEN FileConfig(f) ELSE ConfigDefault)

\* load_from_file: read_to_string and serde_yaml::from_str, each with `?`
load_from_file(f) ==
    IF f \in ValidFiles THEN Ok(FileConfig(f))
    ELSE [kind |-> "Err", value |-> ConfigDefault]

\* find_and_load_config: one candidate of config_paths (exists, load_from_file);
\* after the last one the defaults; reload_config's `?` on the result
find_and_load_config(t) ==
    /\ tpc[t] = "r_find"
    /\ LET p == local[t].path IN
       IF exists(fs[p]) /\ load_from_file(fs[p]).kind = "Ok"
       THEN /\ local' = [local EXCEPT ![t].config = Some(load_from_file(fs[p]).value),
                                      ![t].loaded = TRUE]
            /\ tpc' = [tpc EXCEPT ![t] = "r_lock"]
            /\ UNCHANGED ret
       ELSE IF p < NumConfigPaths
       THEN /\ local' = [local EXCEPT ![t].path = p + 1]
            /\ UNCHANGED <<tpc, ret>>
       ELSE IF NoValidConfig.kind = "Ok"
       THEN /\ local' = [local EXCEPT ![t].config = Some(NoValidConfig.value[1]),
                                      ![t].path = NoValidConfig.value[2],
                                      ![t].loaded = TRUE]
            /\ tpc' = [tpc EXCEPT ![t] = "r_lock"]
            /\ UNCHANGED ret
       ELSE /\ ret' = [ret EXCEPT ![t] = [kind |-> "Err", msg |-> <<"load">>]]
            /\ tpc' = [tpc EXCEPT ![t] = AfterReload(call[t])]
            /\ UNCHANGED local
    /\ UNCHANGED <<cache, rw_readers, rw_writer, fs, fs_writes, env_port, env_url, call>>
    /\ UNCHANGED <<dispatch_vars, input_vars, render_vars, pure_vars, admin>>

\* reload_config: self.config.write()
reload_config_lock(t) ==
    /\ tpc[t] = "r_lock"
    /\ CanWriteLock(rw_readers, rw_writer)
    /\ rw_writer' = t
    /\ tpc' = [tpc EXCEPT ![t] = "r_store"]
    /\ UNCHANGED <<cache, rw_readers, fs, fs_writes, env_port, env_url, call, local, ret>>
    /\ UNCHANGED <<dispatch_vars, input_vars, render_vars, pure_vars, admin>>

\* reload_config: the assignment through the write guard
reload_config_store(t) ==
    /\ tpc[t] = "r_store"
    /\ cache' = NewCacheValue(cache, local[t].config[1])
    /\ local' = [local EXCEPT ![t].old = cache]
    /\ tpc' = [tpc EXCEPT ![t] = "r_unlock"]
    /\ UNCHANGED <<rw_readers, rw_writer, fs, fs_writes, env_port, env_url, call, ret>>
    /\ UNCHANGED <<dispatch_vars, input_vars, render_vars, pure_vars, admin>>

\* reload_config: the guard is dropped, the overrides are applied to the local
\* value, Ok(final_config) is returned
reload_config_return(t) ==
    /\ tpc[t] = "r_unlock"
    /\ rw_writer' = NoThread
    /\ ret' = [ret EXCEPT ![t] = Ok(apply_env_overrides(local[t].config[1]))]
    /\ local' = [local EXCEPT ![t].config = None, ![t].old = None]
    /\ tpc' = [tpc EXCEPT ![t] = AfterReload(call[t])]
    /\ UNCHANGED <<cache, rw_readers, fs, fs_writes, env_port, env_url, call>>
    /\ UNCHANGED <<dispatch_vars, input_vars, render_vars, pure_vars, admin>>

\* somebody edits, breaks, creates or removes one of the candidate files
FsChange ==
    /\ fs_writes < MaxFsWrites
    /\ \E p \in 1..NumConfigPaths : \E f \in FileStates \ {fs[p]} :
          fs' = [fs EXCEPT ![p] = f]
    /\ fs_writes' = fs_writes + 1
    /\ UNCHANGED <<cache, rw_readers, rw_writer, env_port, env_url, tpc, call, local, ret>>
    /\ UNCHANGED <<dispatch_vars, input_vars, render_vars, pure_vars, admin>>

-----------------------------------------------------------------------------
(* SpecConfig: the callers of one LazyConfigManager *)

InitConfig ==
    /\ DispatchIdle
    /\ InputsIdle
    /\ RenderIdle
    /\ PureIdle
    /\ cache = None
    /\ rw_readers = {}
    /\ rw_writer = NoThread
    /\ fs \in InitialFiles
    /\ fs_writes = 0
    /\ \E e \in EnvSettings : env_port = e[1] /\ env_url = e[2]
    /\ tpc = [t \in Threads |-> "idle"]
    /\ call = [t \in Threads |-> "none"]
    /\ local = [t \in Threads |-> NoLocal]
    /\ ret = [t \in Threads |-> NoResult]
    /\ admin = [t \in Threads |-> NoAdminResponse]

NextConfig ==
    \/ \E t \in Threads : CallGet(t)
    \/ \E t \in Threads : force_reload(t)
    \/ \E t \in Threads : get_config_lock(t)
    \/ \E t \in Threads : get_config_match(t)
    \/ \E t \in Threads : get_config_clone(t)
    \/ \E t \in Threads : find_and_load_config(t)
    \/ \E t \in Threads : reload_config_lock(t)
    \/ \E t \in Threads : reload_config_store(t)
    \/ \E t \in Threads : reload_config_return(t)
    \/ \E t \in Threads : manage_config(t)
    \/ FsChange

SpecConfig == InitConfig /\ [][NextConfig]_vars

-----------------------------------------------------------------------------
(* Properties of the dispatch engine *)

NoMatch == \A k \in DOMAIN config.webhooks : config.webhooks[k].name # endpoint_id
Returned == hpc \in {"returned", "responded"}
NoCallIssued == inflight = {} /\ \A k \in DOMAIN sent : sent[k] = 0
FailedPositions == {k \in DOMAIN answered : answered[k].st = "failed"}
ParallelCall ==
    /\ ~NoMatch
    /\ Resolved.enabled
    /\ Len(Resolved.url) > 1
    /\ Resolved.config.n_par > 1

\* C1 (in-flight part): during a dispatch to an enabled endpoint with more than
\* one url and n_par > 1, the sends in flight never exceed min(n_par, #urls).
C1_InFlightBound ==
    ParallelCall =>
        Cardinality(inflight) <= Min(Resolved.config.n_par, Len(Resolved.url))

\* C1 as stated: the in-flight bound holds and, when the call has returned,
\* exactly one send has been issued for each url of the list, whatever the
\* forwarding variant of the endpoint is.
C1_AsStated ==
    /\ C1_InFlightBound
    /\ (ParallelCall /\ Returned) => \A k \in DOMAIN sent : sent[k] = 1

\* C1 amended: the in-flight bound holds for every such dispatch; when the call
\* has returned, exactly one send has been issued for each url if the endpoint
\* is of the Feishu variant, and none at all if its variant is unimplemented.
C1_BoundedFanOut ==
    /\ C1_InFlightBound
    /\ (ParallelCall /\ Returned) =>
          /\ DOMAIN sent = 1..Len(Resolved.url)
          /\ \A k \in DOMAIN sent :
                sent[k] = IF Resolved.forward_config = "FeishuRobotMsg" THEN 1 ELSE 0

C1_Witness ==
    /\ ParallelCall /\ Returned
    /\ Resolved.forward_config = "FeishuRobotMsg"
    /\ Len(Resolved.url) = 3 /\ Resolved.config.n_par = 2
    /\ \A k \in 1..3 : sent[k] = 1

\* C2: in sequential and in parallel mode the returned outcome holds exactly
\* one failure entry for each position of the url list whose attempt failed,
\* built from that url and that error, and none for a position that succeeded;
\* every position has been attempted, whatever the others ended with.
C2_FailureAccount ==
    (Returned /\ answered # <<>>) =>
        /\ fwd_result.kind = "Ok"
        /\ \A k \in DOMAIN answered : answered[k].st \in {"ok", "failed"}
        /\ Len(fwd_result.value) = Cardinality(FailedPositions)
        /\ \A u \in Urls : \A a \in {answered[k].e : k \in DOMAIN answered} :
              Cardinality({j \in DOMAIN fwd_result.value :
                              fwd_result.value[j] = <<Resolved.name, u, a>>})
              = IF a = <<>> THEN 0
                ELSE Cardinality({k \in FailedPositions :
                                     Resolved.url[k] = u /\ answered[k].e = a})

C2_Witness ==
    /\ Returned
    /\ Len(answered) = 3
    /\ Cardinality(FailedPositions) = 1
    /\ answered[2] = Done(<<"HTTP", 500, "busy">>)
    /\ fwd_result = Ok(<<<<Resolved.name, Resolved.url[2], <<"HTTP", 500, "busy">> >>>>)

\* C3: a dispatch on an endpoint whose enabled flag is false returns success
\* with an empty outcome and issues no outbound call, whatever its url list,
\* forwarding variant and concurrency limit are.
C3_DisabledIsSilent ==
    (~NoMatch /\ ~Resolved.enabled) =>
        /\ NoCallIssued
        /\ answered = <<>>
        /\ hpc # "request" => fwd_result = Ok(<<>>)
        /\ hpc = "responded" => response.http = 200 /\ response.status = "success"

C3_Witness ==
    /\ ~NoMatch /\ ~Resolved.enabled
    /\ Len(Resolved.url) = 2 /\ Resolved.config.n_par = 2
    /\ hpc = "responded"
    /\ fwd_result = Ok(<<>>)

\* C4: a dispatch with a name that matches no endpoint of the config returns
\* the not-found error and issues no outbound call; a failed send only ever
\* shows as an entry of a returned outcome, never as the dispatch-level error.
C4_NotFoundIsNotTransport ==
    /\ (NoMatch /\ hpc # "request") =>
          fwd_result = NotFoundError(endpoint_id) /\ NoCallIssued /\ answered = <<>>
    /\ fwd_result.kind = "Err" => NoCallIssued /\ answered = <<>>
    /\ (Returned /\ FailedPositions # {}) =>
          /\ fwd_result.kind = "Ok"
          /\ \A k \in FailedPositions :
                \E j \in DOMAIN fwd_result.value :
                    fwd_result.value[j] = <<Resolved.name, Resolved.url[k], answered[k].e>>

C4_Witness ==
    /\ NoMatch /\ config.webhooks # <<>>
    /\ hpc = "responded"
    /\ fwd_result = NotFoundError(endpoint_id)

\* C5: a dispatch on an enabled endpoint whose url list is empty returns a
\* configuration error and issues no network call, and the caller can tell it
\* apart from the not-found error: it is not answered as the 404 not-found.
C5_ConfigErrorIsNot404 ==
    (~NoMatch /\ Resolved.enabled /\ Len(Resolved.url) = 0 /\ hpc = "responded") =>
        /\ fwd_result = NoUrlsError(endpoint_id)
        /\ NoCallIssued
        /\ response.http # 404

-----------------------------------------------------------------------------
(* Properties of the config store *)

\* what find_and_load_config can produce
LoadResults == {ConfigDefault} \cup {FileConfig(f) : f \in ValidFiles}

\* the defaults with the overrides of the environment, written out
DefaultsWithOverrides ==
    Config(IF env_port = "9000" THEN 9000 ELSE default_server_port,
           IF env_url = "hook" THEN <<EnvWebhook("hook")>> ELSE <<>>)

\* C6 as stated: when a force_reload finds no candidate that parses, the cache
\* after its store equals the cache before it if a config was cached, and holds
\* the defaults if none was.
C6_AsStated ==
    \A t \in Threads :
        (/\ tpc[t] = "r_unlock" /\ call[t] = "force_reload" /\ local[t].path = 0
         /\ \A p \in 1..NumConfigPaths : fs[p] \in {"missing", "corrupt"}) =>
            cache = IF local[t].old # None THEN local[t].old ELSE Some(ConfigDefault)

\* C6 amended: when a load (a force_reload or the first get_config) finds no
\* candidate that parses, the cache after its store holds the hard-coded
\* defaults, whether a config was cached before or not: a cached config is
\* replaced by the defaults.
C6_FailedLoadCachesDefaults ==
    \A t \in Threads :
        (tpc[t] = "r_unlock" /\ local[t].path = 0) => cache = Some(ConfigDefault)

C6_Witness ==
    \E t \in Threads :
        /\ tpc[t] = "r_unlock" /\ call[t] = "force_reload" /\ local[t].path = 0
        /\ local[t].old = Some(FileConfig("A"))
        /\ \A p \in 1..NumConfigPaths : fs[p] \in {"missing", "corrupt"}
        /\ cache = Some(ConfigDefault)

\* C7: force_reload and get_config never return an error because of missing
\* or unparsable files; a call whose load found no candidate that parses
\* returns the hard-coded defaults with the environment overrides applied.
C7_LoadNeverFails ==
    \A t \in Threads :
        tpc[t] = "done" =>
            /\ ret[t].kind = "Ok"
            /\ (local[t].loaded /\ local[t].path = 0) =>
                  ret[t].value = DefaultsWithOverrides

C7_Witness ==
    \E t \in Threads :
        /\ tpc[t] = "done" /\ call[t] = "get_config"
        /\ local[t].loaded /\ local[t].path = 0
        /\ \E p \in 1..NumConfigPaths : fs[p] = "corrupt"
        /\ env_port = "9000" /\ env_url = "hook"
        /\ ret[t] = Ok(Config(9000, <<EnvWebhook("hook")>>))

\* C8: while FEISHU_WEBHOOK_URL is set, after any sequence of get_config and
\* force_reload calls the cached config holds no endpoint added by the
\* override, and every returned config is a loaded config with at most one
\* synthetic env_webhook endpoint appended to its endpoint list.
C8_OverridesNotCumulative ==
    env_url = "hook" =>
        /\ cache # None => cache[1] \in LoadResults
        /\ \A t \in Threads :
              ret[t].kind = "Ok" =>
                  \E b \in LoadResults :
                      \/ ret[t].value.webhooks = b.webhooks
                      \/ ret[t].value.webhooks = Append(b.webhooks, EnvWebhook(env_url))

C8_Witness ==
    /\ env_url = "hook"
    /\ call["t1"] = "force_reload" /\ tpc["t1"] = "done"
    /\ ret["t1"].kind = "Ok"
    /\ ret["t1"].value.webhooks = Append(FileConfig("B").webhooks, EnvWebhook("hook"))
    /\ call["t2"] = "get_config" /\ tpc["t2"] = "done"
    /\ ret["t2"] = Ok(FileConfig("A"))
    /\ cache = Some(FileConfig("B"))

\* C9: with concurrent get_config readers and force_reload writers, every
\* config a caller obtains is, as a whole, a config that one load produced
\* (with or without the overrides), never fields of two loads mixed.
C9_NoTornConfig ==
    \A t \in Threads :
        ret[t].kind = "Ok" =>
            \/ ret[t].value \in LoadResults
            \/ \E b \in LoadResults : ret[t].value = apply_env_overrides(b)

C9_Witness ==
    /\ tpc["t1"] = "done" /\ call["t1"] = "get_config"
    /\ ~local["t1"].loaded
    /\ ret["t1"] = Ok(FileConfig("A"))
    /\ tpc["t2"] = "done" /\ call["t2"] = "force_reload"
    /\ cache = Some(FileConfig("B"))

\* C10: while no config is cached, at most one load started by a get_config
\* call is in flight at any time.
C10_SingleFirstLoad ==
    cache = None =>
        Cardinality({t \in Threads : call[t] = "get_config" /\ tpc[t] = "r_find"}) <= 1

-----------------------------------------------------------------------------
(* Properties of the dispatch engine: completion and the stubbed variants *)

\* C12: when a dispatch in parallel mode (more than one url, n_par > 1) has
\* returned, none of its sends is still in flight and every position of the
\* url list has ended as ok or failed, each failure standing in the outcome.
C12_ReturnsAfterAllSends ==
    (ParallelCall /\ Returned) =>
        /\ inflight = {}
        /\ DOMAIN answered = 1..Len(Resolved.url)
        /\ \A k \in DOMAIN answered : answered[k].st \in {"ok", "failed"}
        /\ fwd_result.kind = "Ok"
        /\ Len(fwd_result.value) = Cardinality(FailedPositions)
        /\ \A k \in FailedPositions :
              \E j \in DOMAIN fwd_result.value :
                  fwd_result.value[j] = <<Resolved.name, Resolved.url[k], answered[k].e>>

C12_Witness ==
    /\ ParallelCall /\ Returned
    /\ IsImplemented(Resolved.forward_config)
    /\ Len(Resolved.url) = 3 /\ Resolved.config.n_par = 3
    /\ answered[1] = Done(<<"connection refused">>)
    /\ answered[2] = Done(<<>>)
    /\ answered[3] = Done(<<"HTTP", 500, "busy">>)
    /\ inflight = {}

UnimplementedVariant ==
    ~NoMatch /\ Resolved.forward_config \in {"WecomWebhook", "DingtalkWebhook"}

\* C14: a dispatch on an endpoint of the WeCom or DingTalk variant never issues
\* an outbound call, and when it has returned (endpoint enabled, url list not
\* empty) every position has failed with the "not implemented" error of the
\* variant and the outcome holds exactly one such entry per url of the list.
C14_UnimplementedFailsFast ==
    UnimplementedVariant =>
        /\ NoCallIssued
        /\ (Returned /\ Resolved.enabled /\ ~HasNoUrls(Resolved)) =>
              /\ fwd_result.kind = "Ok"
              /\ Len(fwd_result.value) = Len(Resolved.url)
              /\ \A k \in 1..Len(Resolved.url) :
                    answered[k] = Done(NotImplementedError(Resolved.forward_config))
              /\ \A u \in Urls :
                    Cardinality({j \in DOMAIN fwd_result.value :
                        fwd_result.value[j] =
                            <<Resolved.name, u, NotImplementedError(Resolved.forward_config)>>})
                    = Cardinality({k \in 1..Len(Resolved.url) : Resolved.url[k] = u})

C14_Witness ==
    /\ UnimplementedVariant /\ Returned
    /\ Resolved.forward_config = "DingtalkWebhook"
    /\ Resolved.enabled
    /\ Resolved.url = <<"u1", "u2">>
    /\ fwd_result = Ok(<<<<Resolved.name, "u1", <<"DingTalk webhook not implemented yet">> >>,
                         <<Resolved.name, "u2", <<"DingTalk webhook not implemented yet">> >> >>)
    /\ NoCallIssued

-----------------------------------------------------------------------------
(* Properties of the webhook handler *)

ReadLockError == [kind |-> "Err", msg |-> <<"Failed to acquire read lock on config">>]

\* C18: once the handler has answered, an empty dispatch outcome was answered
\* with 200 "success" and no error list, a non-empty outcome with 200
\* "partial_success" and that list, an unresolved endpoint name with 404
\* "error"; and a failed get_config is answered with 500 whatever else holds.
C18_ResponseByOutcome ==
    /\ hpc = "responded" =>
          /\ (fwd_result.kind = "Ok" /\ fwd_result.value = <<>>) =>
                /\ response.http = 200 /\ response.status = "success"
                /\ ~response.has_errors
          /\ (fwd_result.kind = "Ok" /\ fwd_result.value # <<>>) =>
                /\ response.http = 200 /\ response.status = "partial_success"
                /\ response.has_errors /\ response.errors = fwd_result.value
          /\ NoMatch =>
                /\ response.http = 404 /\ response.status = "error"
                /\ ~response.has_errors
    /\ HandlerResponse(ReadLockError, fwd_result).http = 500

C18_Witness ==
    /\ hpc = "responded"
    /\ response.http = 200 /\ response.status = "partial_success"
    /\ Len(response.errors) = 2
    /\ Len(Resolved.url) = 3
    /\ HandlerResponse(ReadLockError, fwd_result) = ConfigurationError

-----------------------------------------------------------------------------
(* converter.rs: one Converter asked to convert one alert *)

TemplateDirs == {None, Some("templates")}

\* the values the clock and the random generator yield in a run
ClockValues == {1, 2}

InitRender ==
    /\ DispatchIdle
    /\ StoreIdle
    /\ alert \in Alerts
    /\ tmpl_ext \in ExternalStates
    /\ tmpl_emb \in TemplateKinds
    /\ rng = ClockValues
    /\ silent = {}
    /\ env_colors = "unset"
    /\ hasher = SampleHasher
    /\ PureIdle
    /\ conv_dir \in TemplateDirs
    /\ rendered = NotRendered

\* converter.glitchtip_to_feishu_card(&webhook)
Convert ==
    /\ ~rendered.called
    /\ \E nonce \in rng :
          rendered' = [called |-> TRUE,
                       value |-> glitchtip_to_feishu_card(conv_dir, tmpl_ext, tmpl_emb,
                                                          alert, nonce)]
    /\ UNCHANGED <<conv_dir, dispatch_vars, store_vars, input_vars, pure_vars>>

NextRender == Convert

SpecRender == InitRender /\ [][NextRender]_vars

-----------------------------------------------------------------------------
(* Properties of the converter *)

\* the template load_template_content resolves for this converter
ResolvedTemplate == load_template_content(conv_dir, tmpl_ext, tmpl_emb)[1]

\* a template whose rendering succeeds and whose output parses as JSON
RendersToJson(kind) == kind \in {"good", "good_dsl"}

\* C15: whatever the alert, the configured directory, the override file
\* (missing, unreadable, failing to render, rendering to non-JSON) and the
\* embedded template do, a conversion returns an envelope, its type is
\* "interactive" and its card document is present.
C15_RenderNeverFails ==
    rendered.called =>
        /\ rendered.value # None
        /\ rendered.value[1].msg_type = "interactive"
        /\ rendered.value[1].card # None
        /\ rendered.value[1].content = None

C15_Witness ==
    /\ rendered.called
    /\ conv_dir # None /\ tmpl_ext = "not_json" /\ tmpl_emb = "render_fails"
    /\ rendered.value # None
    /\ rendered.value[1].msg_type = "interactive"
    /\ rendered.value[1].card[1].origin = "emergency"

\* C16: the card comes from the resolved template when that template renders
\* and parses, from the embedded template when the resolved one fails and the
\* embedded one renders and parses, and is the hard-coded document exactly
\* when both fail.
C16_FallbackOrder ==
    rendered.called =>
        LET card == rendered.value[1].card[1] IN
        /\ RendersToJson(ResolvedTemplate.kind) => card.origin = ResolvedTemplate.origin
        /\ (~RendersToJson(ResolvedTemplate.kind) /\ RendersToJson(tmpl_emb)) =>
              card.origin = "embedded"
        /\ card.origin = "emergency" <=>
              (~RendersToJson(ResolvedTemplate.kind) /\ ~RendersToJson(tmpl_emb))

C16_Witness ==
    /\ rendered.called
    /\ conv_dir # None /\ tmpl_ext = "render_fails" /\ tmpl_emb = "good_dsl"
    /\ rendered.value[1].card[1].origin = "embedded"
    /\ rendered.value[1].card[1].part = "dsl"

-----------------------------------------------------------------------------
(* service.rs and converter.rs together: what a Feishu dispatch delivers *)

\* the retry counts of the endpoints: none, and the default
RetryValues == {0, default_retry}

\* enabled Feishu endpoints named "a", sequential (n_par 1) or parallel (2)
DeliverWebhooks ==
    {[name |-> "a", url |-> us, enabled |-> TRUE, forward_config |-> "FeishuRobotMsg",
      config |-> [default_runtime_config EXCEPT !.n_par = n, !.retry = r]] :
        us \in UrlLists \ {<<>>}, n \in {1, 2}, r \in RetryValues}

\* the override file of a configured directory: absent, or a working template
DeliverOverrides == {"missing", "good"}

\* which destinations accept the request and never answer it
SilentSets == {{}, {"u2"}}

\* the surroundings of a dispatch: each value of each setting occurs, not
\* every combination (the override file matters only under a configured
\* directory; a silent destination and an unusual retry count are looked at
\* without an override)
DeliverSettings ==
    {st \in [dir : TemplateDirs, override : DeliverOverrides, silent : SilentSets,
             retry : RetryValues] :
        /\ st.dir = None => st.override = "missing"
        /\ st.silent # {} => st.dir = None
        /\ st.retry # default_retry => (st.dir = None /\ st.silent = {})}

InitDeliver ==
    /\ \E w \in DeliverWebhooks : \E st \in DeliverSettings :
          /\ w.config.retry = st.retry
          /\ config = [Config(default_server_port, <<w>>) EXCEPT !.template_dir = st.dir]
          /\ tmpl_ext = st.override
          /\ silent = st.silent
    /\ endpoint_id = "a"
    /\ hpc = "request"
    /\ next_url = 1
    /\ inflight = {}
    /\ sent = <<>>
    /\ answered = <<>>
    /\ errors = <<>>
    /\ fwd_result = NoResult
    /\ response = NoResponse
    /\ bodies = <<>>
    /\ renders = 0
    /\ alert = SampleAlert
    /\ tmpl_emb = "good"
    /\ rng = ClockValues
    /\ env_colors = "unset"
    /\ hasher = SampleHasher
    /\ StoreIdle
    /\ RenderIdle
    /\ PureIdle

SpecDeliver == InitDeliver /\ [][Next]_vars

-----------------------------------------------------------------------------
(* Properties of what a dispatch delivers *)

\* the positions of the url list for which a request has been issued
Delivered == {k \in DOMAIN bodies : bodies[k] # None}

\* C11 as stated: when a dispatch to a Feishu endpoint has returned, the alert
\* has been rendered exactly once and all the requests issued carry the same
\* body.
C11_RenderedOncePerEndpoint ==
    (Returned /\ Delivered # {}) =>
        /\ renders = 1
        /\ \A j \in Delivered : \A k \in Delivered : bodies[j] = bodies[k]

\* C13 as stated: a dispatch that has not returned can always take a step, so
\* no send that stays unanswered keeps the call from ever returning.
C13_DispatchNeverStuck ==
    hpc \in {"sequential", "parallel"} => ENABLED Next

\* C17 as stated: when the config names a template directory and the override
\* file in it is there, can be read and renders to JSON, every request issued
\* carries a card rendered from the override template.
C17_OverrideTemplateUsed ==
    (config.template_dir # None /\ RendersToJson(tmpl_ext)) =>
        \A k \in Delivered : bodies[k][1].card[1].origin = "external"

-----------------------------------------------------------------------------
(* Properties of the reload endpoint and of the endpoint names *)

\* C19: whenever manage_config has answered, the answer is 200 with an empty
\* body exactly when force_reload returned Ok and 400 with an error message
\* exactly when it returned Err; a reload that found no valid file (it fell
\* back to the defaults) is answered 200.
C19_ReloadAnswer ==
    \A t \in Threads :
        admin[t] # NoAdminResponse =>
            /\ (admin[t].http = 200 /\ admin[t].body = <<>>) <=> ret[t].kind = "Ok"
            /\ (admin[t].http = 400 /\ admin[t].body # <<>>) <=> ret[t].kind = "Err"
            /\ admin[t].http \in {200, 400}
            /\ local[t].path = 0 => admin[t].http = 200

C19_Witness ==
    \E t \in Threads :
        /\ call[t] = "force_reload" /\ tpc[t] = "done"
        /\ \A p \in 1..NumConfigPaths : fs[p] \in {"missing", "corrupt"}
        /\ fs[1] = "corrupt"
        /\ local[t].path = 0
        /\ admin[t] = [http |-> 200, body |-> <<>>]

\* no two endpoints of the config have the same name
DistinctNames(c) ==
    \A i \in DOMAIN c.webhooks : \A j \in DOMAIN c.webhooks :
        i # j => c.webhooks[i].name # c.webhooks[j].name

\* C20 as stated: the cached config and every config that get_config or
\* force_reload has returned have pairwise distinct endpoint names.
C20_NamesUnique ==
    /\ cache # None => DistinctNames(cache[1])
    /\ \A t \in Threads : ret[t].kind = "Ok" => DistinctNames(ret[t].value)

-----------------------------------------------------------------------------
(* service.rs: one call of send_http_request *)

\* statuses around the borders of the 2xx range, and some beyond
ProbeCodes == {100, 199, 200, 201, 204, 299, 300, 301, 400, 404, 429, 500, 503}
ProbeBodies == {None, Some(""), Some("busy"), Some("{\"code\":19001}")}
ProbeFailures == {"connection refused", "dns error", "connection reset"}

Replies ==
    {StatusAnswer(c, b) : c \in ProbeCodes, b \in ProbeBodies}
        \cup {TransportFailure(t) : t \in ProbeFailures}

InitSend ==
    /\ DispatchIdle
    /\ StoreIdle
    /\ InputsIdle
    /\ RenderIdle
    /\ reply \in Replies
    /\ outcome = NotSent
    /\ extracted = NotExtracted
    /\ proc_seed = ZeroKeys
    /\ seen = [s \in ColorTexts |-> {}]

\* send_http_request(url, &feishu_msg).await with the destination doing `reply`
send_http_request ==
    /\ ~outcome.called
    /\ outcome' = [called |-> TRUE, e |-> SendError(reply)]
    /\ UNCHANGED <<reply, extracted, proc_seed, seen>>
    /\ UNCHANGED <<dispatch_vars, store_vars, input_vars, render_vars>>

NextSend == send_http_request

SpecSend == InitSend /\ [][NextSend]_vars

\* C21: a send yields no failure exactly when the destination answered with a
\* status from 200 to 299; any other status yields a failure carrying that
\* status and the response body (empty if the body cannot be read), and a
\* failure of the transport yields a failure carrying the transport's text.
C21_FailureIffNot2xx ==
    outcome.called =>
        /\ outcome.e = <<>> <=>
              (reply.kind = "status" /\ reply.code \in 200..299)
        /\ (reply.kind = "status" /\ reply.code \notin 200..299) =>
              /\ outcome.e[2] = reply.code
              /\ outcome.e[3] = IF reply.body = None THEN "" ELSE reply.body[1]
        /\ reply.kind = "transport" => outcome.e = <<reply.error>>

C21_Witness ==
    /\ outcome.called
    /\ reply = StatusAnswer(300, Some("busy"))
    /\ outcome.e = <<"HTTP", 300, "busy">>

-----------------------------------------------------------------------------
(* Properties of the dispatch engine: retries and sequential order *)

\* C25: whatever the retry count of the endpoint is, no url is ever sent to
\* more than once; an attempt that failed is over at once (not in flight, its
\* one request counted, its entry in the list), and when the dispatch has
\* returned every url has been sent to exactly once.
C25_RetryNotEnforced ==
    /\ \A k \in DOMAIN sent : sent[k] <= 1
    /\ \A k \in FailedPositions :
          /\ k \notin inflight
          /\ sent[k] = 1
          /\ \E j \in DOMAIN errors :
                errors[j] = <<Resolved.name, Resolved.url[k], answered[k].e>>
    /\ (Returned /\ sent # <<>>) => \A k \in DOMAIN sent : sent[k] = 1

C25_Witness ==
    /\ Returned
    /\ Resolved.config.retry = default_retry
    /\ Len(Resolved.url) = 2
    /\ answered[1] = Done(<<"HTTP", 500, "busy">>)
    /\ answered[2] = Done(<<"connection refused">>)
    /\ sent = <<1, 1>>
    /\ Len(fwd_result.value) = 2

\* the endpoint is dispatched to one url at a time: one url, or n_par <= 1
SequentialCall ==
    /\ ~NoMatch
    /\ answered # <<>>
    /\ (Len(Resolved.url) = 1 \/ Resolved.config.n_par <= 1)

\* the positions whose attempt has begun
Started == {k \in DOMAIN answered : answered[k].st # "open" \/ k \in inflight}

RECURSIVE FailuresInOrder(_)
\* the failure entries of the positions 1..k, in the order of the url list
FailuresInOrder(k) ==
    IF k = 0 THEN <<>>
    ELSE IF answered[k].st = "failed"
    THEN Append(FailuresInOrder(k - 1),
                <<Resolved.name, Resolved.url[k], answered[k].e>>)
    ELSE FailuresInOrder(k - 1)

\* C26: with one url or n_par <= 1 at most one send is in flight, the attempts
\* begun form a prefix of the url list, a send begins only when all the sends
\* before it have ended, the failure entries stand in url-list order, and when
\* the dispatch has returned every url has been attempted, failures before it
\* or not.
C26_SequentialInOrder ==
    SequentialCall =>
        /\ Cardinality(inflight) <= 1
        /\ Started = 1..Cardinality(Started)
        /\ \A k \in inflight : \A j \in 1..(k - 1) : answered[j].st \in {"ok", "failed"}
        /\ errors = FailuresInOrder(Len(answered))
        /\ Returned =>
              /\ \A k \in DOMAIN answered : answered[k].st \in {"ok", "failed"}
              /\ fwd_result = Ok(FailuresInOrder(Len(answered)))

C26_Witness ==
    /\ SequentialCall /\ Returned
    /\ Resolved.config.n_par = 0
    /\ Len(Resolved.url) = 3
    /\ answered[1].st = "failed" /\ answered[2].st = "ok" /\ answered[3].st = "failed"
    /\ fwd_result.value = << <<Resolved.name, Resolved.url[1], answered[1].e>>,
                             <<Resolved.name, Resolved.url[3], answered[3].e>> >>
    /\ answered[1].e # answered[3].e

\* a thread holds the outcome of a config load it has not yet returned
HoldsLoaded(t) == tpc[t] \in {"r_lock", "r_store", "r_unlock"} /\ local[t].loaded

\* the candidates in front of position p neither exist and parse
NoneUsableBefore(p) == \A q \in 1..(p - 1) : fs[q] \notin ValidFiles

\* C27: while the files are left alone, a load that has reached candidate p has
\* found every earlier candidate missing or unparsable, and the outcome of a
\* load is the config of the first candidate that exists and parses (a broken
\* candidate in front of it is passed over), or the defaults when there is none.
C27_FirstUsableCandidate ==
    \A t \in Threads :
        fs_writes = 0 =>
            /\ tpc[t] = "r_find" => NoneUsableBefore(local[t].path)
            /\ HoldsLoaded(t) =>
                  IF local[t].path = 0
                  THEN /\ NoneUsableBefore(NumConfigPaths + 1)
                       /\ local[t].config = Some(ConfigDefault)
                  ELSE /\ fs[local[t].path] \in ValidFiles
                       /\ NoneUsableBefore(local[t].path)
                       /\ local[t].config = Some(FileConfig(fs[local[t].path]))

C27_Witness ==
    \E t \in Threads :
        /\ fs_writes = 0
        /\ HoldsLoaded(t)
        /\ fs = <<"corrupt", "B", "missing", "A">>
        /\ local[t].path = 2
        /\ local[t].config = Some(FileConfig("B"))

\* the template whose rendered output became the card: the resolved one, the
\* embedded one behind it, or neither
UsedKind ==
    IF RendersToJson(ResolvedTemplate.kind) THEN ResolvedTemplate.kind
    ELSE IF RendersToJson(tmpl_emb) THEN tmpl_emb
    ELSE "none"

\* C30: when a template rendered and parsed, the card is the value of the
\* document's "dsl" field if the document has one and the whole document if it
\* has none, whether the document came from the resolved template or from the
\* embedded template used as the fallback.
C30_CardIsDslOrDocument ==
    (rendered.called /\ UsedKind # "none") =>
        LET card == rendered.value[1].card[1] IN
        /\ UsedKind = "good_dsl" => (card.part = "dsl" /\ card.dsl = None)
        /\ UsedKind = "good" => (card.part = "document" /\ card.dsl = None)
        /\ card.md = extract_metadata(alert, card.md.stamp_and_ids)

C30_Witness ==
    /\ rendered.called
    /\ conv_dir # None /\ tmpl_ext = "good_dsl" /\ tmpl_emb = "good"
    /\ rendered.value[1].card[1].origin = "external"
    /\ rendered.value[1].card[1].part = "dsl"

-----------------------------------------------------------------------------
(* SpecExtract: one call of Converter::extract_metadata *)

\* the values of GWR_ENABLE_HASH_COLORS
EnvColorValues == {"unset", "true", "false", "yes"}

\* the attachments of the alerts: none; all four fields; a title without ':'
\* and one field title twice; field titles in another case and of no interest;
\* a bare first attachment in front of a full one
AttachmentLists ==
    {<<>>,
     SampleAlert.attachments,
     <<Attachment(<<"Timeout">>, "",
                  <<Field("Project", "web"), Field("Project", "api")>>)>>,
     <<Attachment(<<"KeyError", ":", " 'id'", ":", " missing">>, "https://gt/issues/2",
                  <<Field("project", "web"), Field("Environment", "api"),
                    Field("Other", "web"), Field("Environment", "")>>)>>,
     <<Attachment(<<>>, "", <<>>), SampleAlert.attachments[1]>>}

\* the subtitles of the first section
Subtitles ==
    {<<"View Issue ", "[", "PROJ-1", "]", "(", "https://gt/issues/1", ")">>,
     <<"View Issue ", "PROJ-1">>,
     <<"View Issue ", "[", "PROJ-1", "]">>,
     <<"View Issue ", "]", "PROJ-1", "[">>,
     <<"View Issue ", "see ", "[", "PROJ-1", "]", "(", "https://gt/issues/1", ")">>,
     <<"[", "PROJ-1", "]", "(", "https://gt/issues/1", ")">>,
     <<"PROJ-1">>,
     <<>>}

SectionLists ==
    {<<>>} \cup {<<Section(s)>> : s \in Subtitles}
           \cup {<<Section(<<"View Issue ", "PROJ-2">>), SampleAlert.sections[1]>>}

ExtractAlerts == {Alert(a, s) : a \in AttachmentLists, s \in SectionLists}

InitExtract ==
    /\ DispatchIdle
    /\ StoreIdle
    /\ RenderIdle
    /\ alert \in ExtractAlerts
    /\ env_colors \in EnvColorValues
    /\ hasher = SampleHasher
    /\ tmpl_ext = "missing"
    /\ tmpl_emb = "good"
    /\ rng = ClockValues
    /\ silent = {}
    /\ PureIdle

\* converter.extract_metadata(&glitchtip)
Extract ==
    /\ ~extracted.called
    /\ \E nonce \in rng :
          extracted' = [called |-> TRUE, md |-> <<extract_metadata(alert, nonce)>>]
    /\ UNCHANGED <<reply, outcome, proc_seed, seen>>
    /\ UNCHANGED <<dispatch_vars, store_vars, input_vars, render_vars>>

NextExtract == Extract

SpecExtract == InitExtract /\ [][NextExtract]_vars

\* C22: extraction is possible for every alert; for an alert without
\* attachments it yields exception_class_name "Unknown", full_error_message
\* "Unknown error", issue_url "" and "Unknown" for project, environment, host
\* and commit; for an alert without sections it yields issue_identifier
\* "Unknown".
C22_DefaultsWhenAbsent ==
    /\ ~extracted.called => ENABLED Extract
    /\ extracted.called =>
          LET md == extracted.md[1] IN
          /\ alert.attachments = <<>> =>
                /\ md.exception_class_name = <<"Unknown">>
                /\ md.full_error_message = <<"Unknown error">>
                /\ md.issue_url = ""
                /\ md.project_id = "Unknown"
                /\ md.environment_name = "Unknown"
                /\ md.hostname = "Unknown"
                /\ md.commit_hash = "Unknown"
          /\ alert.sections = <<>> => md.issue_identifier = <<"Unknown">>

C22_Witness ==
    /\ extracted.called
    /\ alert = EmptyAlert
    /\ extracted.md[1].full_error_message = <<"Unknown error">>
    /\ extracted.md[1].issue_url = ""
    /\ extracted.md[1].issue_identifier = <<"Unknown">>

IsMarkdownLink(r) ==
    /\ Len(r) >= 4
    /\ r[1] = "["
    /\ r[Len(r)] = ")"
    /\ \E j \in 2..(Len(r) - 2) :
          /\ r[j] = "]" /\ r[j + 1] = "("
          /\ \A k \in 2..(j - 1) : r[k] \notin {"[", "]"}
          /\ \A k \in (j + 2)..(Len(r) - 1) : r[k] \notin {"(", ")"}

\* the text of a markdown link
LinkText(r) == SubSeq(r, 2, find(r, "]")[1])

\* C28: issue_identifier is the first subtitle without the prefix
\* "View Issue ": the link text if all of the rest is a markdown link
\* [text](url), and the rest unchanged otherwise.
C28_IssueIdentifier ==
    (extracted.called /\ alert.sections # <<>>) =>
        LET r == strip_prefix(alert.sections[1].activity_subtitle) IN
        extracted.md[1].issue_identifier = IF IsMarkdownLink(r) THEN LinkText(r) ELSE r

RECURSIVE FirstValue(_, _)
\* the value of the first field of that title, "Unknown" when there is none
FirstValue(fields, title) ==
    IF fields = <<>> THEN "Unknown"
    ELSE IF Head(fields).title = title THEN Head(fields).value
    ELSE FirstValue(Tail(fields), title)

\* C29: project_id, environment_name, hostname and commit_hash are the values
\* of the first field of the first attachment titled "Project", "Environment",
\* "Server Name" and "Release", and "Unknown" when no field has the title.
C29_FirstFieldWins ==
    (extracted.called /\ alert.attachments # <<>>) =>
        LET md == extracted.md[1]
            fields == alert.attachments[1].fields
        IN /\ md.project_id = FirstValue(fields, "Project")
           /\ md.environment_name = FirstValue(fields, "Environment")
           /\ md.hostname = FirstValue(fields, "Server Name")
           /\ md.commit_hash = FirstValue(fields, "Release")

-----------------------------------------------------------------------------
(* SpecColor: hash_to_color over the calls and restarts of the process *)

\* what SipHash can be: a value for the empty text and one for the other texts
\* under the keys of DefaultHasher::new(), another under random keys
ColorHashers ==
    {[x \in HashKeys \X ColorTexts |->
         IF x[1] = ZeroKeys THEN (IF x[2] = "" THEN a ELSE b) ELSE c] :
       a \in HashValues, b \in HashValues, c \in HashValues}

InitColor ==
    /\ DispatchIdle
    /\ StoreIdle
    /\ RenderIdle
    /\ alert = SampleAlert
    /\ tmpl_ext = "missing"
    /\ tmpl_emb = "good"
    /\ rng = ClockValues
    /\ silent = {}
    /\ env_colors = "unset"
    /\ hasher \in ColorHashers
    /\ reply = TransportFailure("")
    /\ outcome = NotSent
    /\ extracted = NotExtracted
    /\ proc_seed \in HashKeys
    /\ seen = [s \in ColorTexts |-> {}]

\* hash_to_color(text), noted with the keys the process runs under
ColorFor(s) ==
    /\ seen' = [seen EXCEPT ![s] = @ \cup {<<proc_seed, hash_to_color(s)>>}]
    /\ UNCHANGED <<reply, outcome, extracted, proc_seed>>
    /\ UNCHANGED <<dispatch_vars, store_vars, input_vars, render_vars>>

\* the process ends and a new one starts, with random keys of its own
Restart ==
    /\ proc_seed' \in HashKeys \ {proc_seed}
    /\ UNCHANGED <<reply, outcome, extracted, seen>>
    /\ UNCHANGED <<dispatch_vars, store_vars, input_vars, render_vars>>

NextColor ==
    \/ \E s \in ColorTexts : ColorFor(s)
    \/ Restart

SpecColor == InitColor /\ [][NextColor]_vars

\* the (background, foreground) pairs of the palette
Palette == {COLOR_PAIRS[i] : i \in 1..Len(COLOR_PAIRS)}

\* C23: hash_to_color has a result for every text, the empty one included; the
\* result is one entry of the palette, background and foreground of the same
\* entry; and all calls on one text, in one process or across restarts, return
\* the same pair.
C23_ColorDeterministic ==
    \A s \in ColorTexts :
        /\ hash_to_color(s) \in Palette
        /\ \A x \in seen[s] : x[2] \in Palette
        /\ \A x \in seen[s] : \A y \in seen[s] : x[2] = y[2]

C23_Witness ==
    /\ Cardinality(seen[""]) = 2
    /\ Cardinality(seen["web"]) = 2
    /\ \E x \in seen[""] : x[1] = ZeroKeys /\ x[2] = <<"violet-50", "violet">>
    /\ \E x \in seen[""] : x[1] # ZeroKeys /\ x[2] = <<"violet-50", "violet">>
    /\ hasher[<<ZeroKeys, "">>] # hasher[<<proc_seed, "">>]

-----------------------------------------------------------------------------
(* Properties of the config store: what the callers between two loads see *)

\* C31: while the files are left alone, so that every load reads the same
\* config, a get_config call answered from the cache returns the same config
\* as the get_config call that performed the load: the PORT override and the
\* env_webhook endpoint are in both or in neither.
C31_StableBetweenLoads ==
    \A t \in Threads : \A u \in Threads :
        (/\ fs_writes = 0
         /\ tpc[t] = "done" /\ call[t] = "get_config" /\ local[t].loaded
         /\ tpc[u] = "done" /\ call[u] = "get_config" /\ ~local[u].loaded
         /\ ret[t].kind = "Ok" /\ ret[u].kind = "Ok")
        => ret[u] = ret[t]

-----------------------------------------------------------------------------
(* SpecServe: one request of receive_endpoint_webhook from its get_config *)
(* on, next to a second caller of the config manager                      *)

\* the thread of the request, and the thread of the other callers
Handler == "t1"
Other == "t2"

\* a config loaded before the file was rewritten: endpoint "a" with two urls,
\* dispatched in parallel
EarlierConfig ==
    Config(8002, <<[FileWebhook("a", "u1") EXCEPT
                      !.url = <<"u1", "u2">>,
                      !.config = [default_runtime_config EXCEPT !.n_par = 2]]>>)

InitServe ==
    /\ config = ConfigDefault
    /\ endpoint_id = "a"
    /\ hpc = "idle"
    /\ next_url = 1
    /\ inflight = {}
    /\ sent = <<>>
    /\ answered = <<>>
    /\ errors = <<>>
    /\ fwd_result = NoResult
    /\ response = NoResponse
    /\ bodies = <<>>
    /\ renders = 0
    /\ cache \in {None, Some(EarlierConfig)}
    /\ rw_readers = {}
    /\ rw_writer = NoThread
    /\ fs = <<"A", "missing", "missing", "missing">>
    /\ fs_writes = 0
    /\ env_port = "unset"
    /\ env_url = "unset"
    /\ tpc = [t \in Threads |-> "idle"]
    /\ call = [t \in Threads |-> "none"]
    /\ local = [t \in Threads |-> NoLocal]
    /\ ret = [t \in Threads |-> NoResult]
    /\ admin = [t \in Threads |-> NoAdminResponse]
    /\ alert = SampleAlert
    /\ tmpl_ext = "missing"
    /\ tmpl_emb = "good"
    /\ rng = {1}
    /\ silent \in {{}, {"u1"}}
    /\ env_colors = "unset"
    /\ hasher = SampleHasher
    /\ RenderIdle
    /\ PureIdle

\* receive_endpoint_webhook: service.config_manager.get_config() is entered
receive_get_config ==
    /\ hpc = "idle"
    /\ tpc[Handler] = "idle"
    /\ CallGet(Handler)

\* receive_endpoint_webhook: let config = ..get_config()..?; the handler owns
\* the returned clone and goes on to forward_to_endpoint(.., &config)
receive_config_obtained ==
    /\ hpc = "idle"
    /\ tpc[Handler] = "done"
    /\ ret[Handler].kind = "Ok"
    /\ config' = ret[Handler].value
    /\ hpc' = "request"
    /\ UNCHANGED <<endpoint_id, next_url, inflight, sent, answered, errors,
                   fwd_result, response, bodies, renders>>
    /\ UNCHANGED <<store_vars, input_vars, render_vars, pure_vars>>

\* the step a thread inside the config manager takes next
ManagerStep(t) ==
    \/ get_config_lock(t)
    \/ get_config_match(t)
    \/ get_config_clone(t)
    \/ find_and_load_config(t)
    \/ reload_config_lock(t)
    \/ reload_config_store(t)
    \/ reload_config_return(t)
    \/ manage_config(t)

NextServe ==
    \/ receive_get_config
    \/ receive_config_obtained
    \/ forward_to_endpoint
    \/ forward_sequential_send
    \/ forward_sequential_complete
    \/ forward_parallel_launch
    \/ forward_parallel_complete
    \/ forward_return
    \/ receive_endpoint_webhook
    \/ CallGet(Other)
    \/ force_reload(Other)
    \/ \E t \in Threads : ManagerStep(t)

SpecServe == InitServe /\ [][NextServe]_vars

\* the handler is between its get_config and its response
InDispatch == hpc \in {"request", "sequential", "parallel", "returned"}

\* the thread holds the config lock, for reading or for writing
HoldsLock(t) == t \in rw_readers \/ rw_writer = t

\* C32: the handler holds no config lock from forward_to_endpoint to its
\* response, and a reload holds none while it walks and parses the files;
\* during a dispatch, sends in flight or not answered at all, every step of
\* another get_config or force_reload can be taken and a new call can be
\* entered; and the dispatch works on the config it obtained at its start (one
\* attempt slot per url of that config), which no step changes, whatever the
\* cache becomes.
C32_NoLockAcrossSends ==
    /\ [](InDispatch => ~HoldsLock(Handler))
    /\ [](\A t \in Threads : tpc[t] = "r_find" => ~HoldsLock(t))
    /\ [](InDispatch =>
            /\ tpc[Other] \notin {"idle", "done"} => ENABLED ManagerStep(Other)
            /\ tpc[Other] \in {"idle", "done"} =>
                  (ENABLED CallGet(Other) /\ ENABLED force_reload(Other)))
    /\ []((hpc \in {"sequential", "parallel"}) =>
            Len(answered) = Len(Resolved.url))
    /\ [][hpc # "idle" => config' = config]_vars

C32_Witness ==
    /\ hpc = "parallel"
    /\ config = EarlierConfig
    /\ inflight = {1, 2}
    /\ "u1" \in silent
    /\ answered = <<Open, Open>>
    /\ call[Other] = "force_reload" /\ tpc[Other] = "done"
    /\ admin[Other].http = 200
    /\ cache = Some(FileConfig("A"))

-----------------------------------------------------------------------------
(* Properties of the dispatch engine: the two modes side by side *)

\* a dispatch that went into forward_with_parallelism, in either mode
FanOutCall == ~NoMatch /\ Resolved.enabled /\ Resolved.url # <<>>

\* the failure entry the position k of the url list stands for
EntryOf(k) == <<Resolved.name, Resolved.url[k], answered[k].e>>

\* how often an entry occurs in the outcome, and among the failed positions
TimesReturned(e) == Cardinality({j \in DOMAIN fwd_result.value : fwd_result.value[j] = e})
TimesFailed(e) == Cardinality({k \in FailedPositions : EntryOf(k) = e})

\* C33: whatever the mode (n_par and the length of the url list decide it),
\* a returned dispatch has made the same sends, one per url of a Feishu
\* endpoint and none for a stubbed variant, and its outcome holds the same
\* entries <name, url, error> with the same multiplicities: those of the
\* failed positions, in some order.
C33_ModesAgreeUpToOrder ==
    (FanOutCall /\ Returned) =>
        /\ fwd_result.kind = "Ok"
        /\ \A k \in DOMAIN sent :
              sent[k] = IF Resolved.forward_config = "FeishuRobotMsg" THEN 1 ELSE 0
        /\ DOMAIN sent = 1..Len(Resolved.url)
        /\ Len(fwd_result.value) = Cardinality(FailedPositions)
        /\ \A k \in FailedPositions : TimesReturned(EntryOf(k)) = TimesFailed(EntryOf(k))
        /\ \A j \in DOMAIN fwd_result.value :
              \E k \in FailedPositions : fwd_result.value[j] = EntryOf(k)

C33_Witness ==
    /\ FanOutCall /\ Returned
    /\ ~IsSequential(Resolved)
    /\ Resolved.url = <<"u1", "u1", "u2">>
    /\ answered[1].e = answered[2].e /\ answered[1].st = "failed"
    /\ answered[3].st = "failed"
    /\ fwd_result.value = <<EntryOf(3), EntryOf(1), EntryOf(2)>>

\* every destination of the dispatch has failed
AllFailed == FanOutCall /\ \A k \in DOMAIN answered : answered[k].st = "failed"

\* C34: a dispatch whose destinations have all failed, those of a stubbed
\* variant included, returns Ok with one entry per destination and is answered
\* with 200 "partial_success" and these entries; and the answer is "success"
\* exactly when the dispatch returned Ok with no entry.
C34_AllFailedIsPartialSuccess ==
    /\ (Returned /\ AllFailed) =>
          /\ fwd_result.kind = "Ok"
          /\ Len(fwd_result.value) = Len(Resolved.url)
    /\ (hpc = "responded" /\ AllFailed) =>
          /\ response.http = 200
          /\ response.status = "partial_success"
          /\ Len(response.errors) = Len(Resolved.url)
          /\ \A k \in DOMAIN answered :
                \E j \in DOMAIN response.errors : response.errors[j] = EntryOf(k)
    /\ hpc = "responded" =>
          (response.status = "success" <=>
              (fwd_result.kind = "Ok" /\ fwd_result.value = <<>>))

C34_Witness ==
    /\ hpc = "responded"
    /\ AllFailed
    /\ Resolved.forward_config = "WecomWebhook"
    /\ Resolved.url = <<"u1", "u2">>
    /\ response.status = "partial_success"
    /\ response.errors = <<EntryOf(1), EntryOf(2)>>
    /\ NoCallIssued

====
